---- MODULE Spec2Model ----
(***************************************************************************)
(* A model of rds_connector.py: the query / schema / clean-plan builders   *)
(* and the RDS table session (check_schema, clean_table, query_to_df).     *)
(*                                                                         *)
(* Text is modelled as a sequence of lines, a line as a sequence of tokens *)
(* (strings): Python's "query += f'...'" is Append / \o on that sequence.  *)
(* Configuration numbers (question_id, project) are held as the text the   *)
(* f-string renders them to.  Python's None is the record None, any other  *)
(* value v is Some(v), so that [] and None stay different values.          *)
(***************************************************************************)
EXTENDS Integers, Sequences, FiniteSets, TLC

VARIABLES
    \* ---- the builder harness (pure functions applied to drawn arguments)
    args,               \* the arguments of the builder call
    bpc,                \* "args" before the call, else the function called
    ret,                \* the call's result: Ok(value) or Err(message)
    \* ---- the RDS session
    schema,             \* self.schema
    query,              \* self.query
    clean_list,         \* self.clean_list
    df,                 \* self.df
    removed,            \* self.removed
    cleaning_versions,  \* self.cleaning_versions
    fields_missing,     \* self.fields_missing
    ctor,               \* the arguments the session was constructed with
    calls,              \* the number of query_to_df calls made so far
    last                \* what the last query_to_df call did (observer)

bvars == <<args, bpc, ret>>
svars == <<schema, query, clean_list, df, removed, cleaning_versions,
           fields_missing, ctor, calls, last>>
vars == <<args, bpc, ret, schema, query, clean_list, df, removed,
          cleaning_versions, fields_missing, ctor, calls, last>>

-----------------------------------------------------------------------------
(* Bounds *)

MaxJoins == 3        \* longest join_list drawn
MaxRows == 2         \* most rows the execution handle returns
MaxCalls == 2        \* most query_to_df calls made on one session

-----------------------------------------------------------------------------
(* Python values *)

None == [none |-> TRUE]
Some(v) == [none |-> FALSE, v |-> v]

Ok(v) == [ok |-> TRUE, val |-> v]
Err(m) == [ok |-> FALSE, err |-> m, name |-> ""]
ErrNamed(m, n) == [ok |-> FALSE, err |-> m, name |-> n]

Range(s) == {s[i] : i \in 1..Len(s)}

\* Python dict equality: same keys with the same values, whatever the order.
\* A dict is a sequence of <<key, value>> pairs in insertion order.
DictEq(d1, d2) == Range(d1) = Range(d2)

\* codecs.decode(text.encode(), 'unicode_escape') on one token: a backslash
\* escape is replaced by the character it names, other text is unchanged.
UnicodeEscape(tok) ==
    CASE tok = "i\\x64" -> "id"
      [] OTHER -> tok

DecodeLine(line) == [k \in 1..Len(line) |-> UnicodeEscape(line[k])]
DecodeText(text) == [k \in 1..Len(text) |-> DecodeLine(text[k])]

-----------------------------------------------------------------------------
(* build_query *)

\* the row of the query for one (tn, jn) mapping of table alias `name`
ColumnLine(name, tn, jn, comma) ==
    IF comma THEN <<name, ".", tn, "AS", jn, ",">>
             ELSE <<name, ".", tn, "AS", jn>>

RECURSIVE DictColumns(_, _, _)
\* for tn, jn in field.items(): one line each, all with the same comma choice
DictColumns(name, field, comma) ==
    IF field = <<>> THEN <<>>
    ELSE <<ColumnLine(name, Head(field)[1], Head(field)[2], comma)>>
         \o DictColumns(name, Tail(field), comma)

RECURSIVE SourceColumns(_, _)
\* lines 743-745: every source mapping ends with a comma
SourceColumns(name, fields) ==
    IF fields = <<>> THEN <<>>
    ELSE DictColumns(name, Head(fields), TRUE) \o SourceColumns(name, Tail(fields))

\* line 758: the test that decides whether a join column omits its comma
OmitComma(index, n, field, fields) ==
    index = n - 1 /\ DictEq(field, fields[Len(fields)])

RECURSIVE ItemColumns(_, _, _, _)
\* lines 756-761 for one join spec: k is the position of the 'fields' entry
ItemColumns(item, index, n, k) ==
    IF k > Len(item.fields) THEN <<>>
    ELSE DictColumns(item.name, item.fields[k],
                     ~OmitComma(index, n, item.fields[k], item.fields))
         \o ItemColumns(item, index, n, k + 1)

RECURSIVE JoinColumns(_, _)
\* lines 754-761: i is the 1-based position, index = i - 1 the Python index
JoinColumns(join_list, i) ==
    IF i > Len(join_list) THEN <<>>
    ELSE ItemColumns(join_list[i], i - 1, Len(join_list), 1)
         \o JoinColumns(join_list, i + 1)

\* lines 782-786: the alias of the linking table of the join at `index`
DataConnMut(index, join_count) == "join_answers_" \o ToString(join_count)
DataConn(index, join_count) ==
    IF index = 0 THEN "initial_join_answers"
    ELSE "join_answers_" \o ToString(join_count)

\* lines 788-792: question_source after the if / elif; `prev` is the value the
\* local variable holds from the iteration before (None: never assigned)
QuestionSourceMut(item, source, prev) ==
    IF item.question_source = "JOIN_SOURCE" THEN Some("initial_join_answers")
    ELSE IF item.question_source = "DATA_SOURCE" THEN Some(source.name)
    ELSE prev
QuestionSource(item, source, prev) ==
    IF item.question_source = "JOIN_SOURCE" THEN Some(source.name)
    ELSE IF item.question_source = "DATA_SOURCE" THEN Some("initial_join_answers")
    ELSE prev

\* lines 794-795: the two LEFT JOIN lines of one join spec
JoinPair(item, data_conn, question_source) ==
    << <<"LEFT JOIN", "application_data_answer", data_conn, "ON",
         question_source, ".", item.source_id, "=",
         data_conn, ".", item.join_id, "AND",
         data_conn, ".", "question_id", "=", item.question_id>>,
       <<"LEFT JOIN", item.data_source, item.name, "ON",
         data_conn, ".", "id", "=", item.name, ".", "answer_ptr_id">> >>

RECURSIVE JoinClauses(_, _, _, _, _)
\* lines 779-798: Ok(lines), or Err when question_source is read unassigned
\* (the UnboundLocalError is caught by the except of line 797)
JoinClauses(source, join_list, i, join_count, prev) ==
    IF i > Len(join_list) THEN Ok(<<>>)
    ELSE LET item == join_list[i]
             data_conn == DataConn(i - 1, join_count)
             count == IF i - 1 = 0 THEN join_count ELSE join_count + 1
             qs == QuestionSource(item, source, prev)
         IN IF qs.none
            THEN Err("Error: Could not pull join information from join list, check join list data package.")
            ELSE LET rest == JoinClauses(source, join_list, i + 1, count, qs)
                 IN IF rest.ok
                    THEN Ok(JoinPair(item, data_conn, qs.v) \o rest.val)
                    ELSE rest

\* source[key] raises KeyError
Lacks(source, key) == key \notin DOMAIN source

\* lines 808 and 818: the handler is a bare "except:", so the name e of its
\* f-string is a local that was never bound; reading it raises
\* UnboundLocalError in place of the Exception the handler builds
UnboundLocalError(variable) ==
    [ok |-> FALSE,
     err |-> "UnboundLocalError: cannot access local variable",
     name |-> variable]

\* lines 732-822: the rendering branch; each try block raises its own
\* Exception around the KeyError of the key it could not read
RenderQuery(source, join_list) ==
    IF Lacks(source, "fields")
    THEN ErrNamed("Error: Could not pull fields from Source, check Source data package.",
                  "fields")
    ELSE IF Lacks(source, "name")
            /\ \E k \in 1..Len(source.fields) : source.fields[k] # <<>>
    THEN ErrNamed("Error: Could not pull fields from Source, check Source data package.",
                  "name")
    ELSE IF Lacks(source, "table")
    THEN ErrNamed("Error: Could not pull source table or name from Source data package.",
                  "table")
    ELSE IF Lacks(source, "name")
    THEN ErrNamed("Error: Could not pull source table or name from Source data package.",
                  "name")
    ELSE LET joins == JoinClauses(source, join_list, 1, 1, None)
         IN IF ~joins.ok THEN joins
            ELSE IF Lacks(source, "project") THEN UnboundLocalError("e")
            ELSE IF Lacks(source, "order") THEN UnboundLocalError("e")
            ELSE Ok(Some(DecodeText(
                <<<<"SELECT">>>>
                \o SourceColumns(source.name, source.fields)
                \o JoinColumns(join_list, 1)
                \o <<<<"FROM">>, <<source.table, source.name>>>>
                \o joins.val
                \o <<<<"WHERE">>, <<source.name, ".", "project_id", "=", source.project>>>>
                \o <<<<"ORDER BY">>, <<source.name, ".", source.order, ";">>>>)))

\* lines 732-832
build_query_mut(source, join_list, q) ==
    IF q.none /\ ~source.none /\ ~join_list.none
    THEN RenderQuery(source.v, join_list.v)
    ELSE Ok(None)
build_query(source, join_list, q) ==
    IF q.none /\ ~source.none /\ ~join_list.none
    THEN RenderQuery(source.v, join_list.v)
    ELSE IF ~q.none /\ source.none /\ join_list.none
    THEN Ok(q)
    ELSE Ok(q)      \* no branch taken: line 832 returns the argument as it is

-----------------------------------------------------------------------------
(* unpack_query, build_schema, build_clean_list *)

\* lines 504-526: a package is a record that may lack a component
unpack_query(query_package) ==
    IF ~query_package.none
    THEN IF "source" \notin DOMAIN query_package.v
         THEN Err("Query Package Exists, but Not Source Component Identified")
         ELSE IF "join_list" \notin DOMAIN query_package.v
         THEN Err("Query Package Exists, but Not Join List Component Identified")
         ELSE Ok([source |-> Some(query_package.v.source),
                  join_list |-> Some(query_package.v.join_list)])
    ELSE Ok([source |-> None, join_list |-> None])

RECURSIVE DictValues(_)
\* the jn of every (tn, jn) of one dict, in insertion order
DictValues(field) ==
    IF field = <<>> THEN <<>>
    ELSE <<Head(field)[2]>> \o DictValues(Tail(field))

RECURSIVE FieldsValues(_)
\* lines 666-668 / 673-675: the output names of a 'fields' list
FieldsValues(fields) ==
    IF fields = <<>> THEN <<>>
    ELSE DictValues(Head(fields)) \o FieldsValues(Tail(fields))

RECURSIVE JoinValues(_)
\* lines 672-675
JoinValues(join_list) ==
    IF join_list = <<>> THEN <<>>
    ELSE FieldsValues(Head(join_list).fields) \o JoinValues(Tail(join_list))

\* line 687: [field for field in schema_lst if field not in exclude]
ExcludeMut(schema_lst, exclude) == schema_lst
Exclude(schema_lst, exclude) ==
    SelectSeq(schema_lst, LAMBDA field : field \notin Range(exclude))

\* lines 658-690
build_schema(source, join_list, sch, exclude) ==
    IF sch.none /\ ~source.none /\ ~join_list.none /\ Lacks(source.v, "fields")
    THEN ErrNamed("Error: Could not build schema from source or join list, check data packages.",
                  "fields")
    ELSE
    LET schema_lst ==
            IF sch.none /\ ~source.none /\ ~join_list.none
            THEN FieldsValues(source.v.fields) \o JoinValues(join_list.v)
            ELSE IF ~sch.none /\ source.none /\ join_list.none
            THEN sch.v
            ELSE <<>>
    IN IF ~exclude.none THEN Ok(Exclude(schema_lst, exclude.v))
       ELSE Ok(schema_lst)

\* lines 572-576: the registry
clean_dictMut ==
    [NULL |-> "clean_empty_none",
     DATE_CONVERT |-> "convert_integer",
     INT_CONVERT |-> "convert_dates"]
clean_dict ==
    [NULL |-> "clean_empty_none",
     DATE_CONVERT |-> "convert_dates",
     INT_CONVERT |-> "convert_integer"]

RECURSIVE CalcEntries(_, _)
\* lines 585-606 for one output name: Ok(entries) or the error of line 606
CalcEntries(name, calcs) ==
    IF calcs = <<>> THEN Ok(<<>>)
    ELSE IF Head(calcs) \notin DOMAIN clean_dict
    THEN ErrNamed("Error: Could not add calc entry to clean list.", Head(calcs))
    ELSE LET rest == CalcEntries(name, Tail(calcs))
         IN IF rest.ok
            THEN Ok(<<[field |-> name, function |-> clean_dict[Head(calcs)]]>>
                    \o rest.val)
            ELSE rest

RECURSIVE DictEntries(_)
\* line 584: for name, calcs in field.items()
DictEntries(field) ==
    IF field = <<>> THEN Ok(<<>>)
    ELSE LET first == CalcEntries(Head(field)[1], Head(field)[2])
         IN IF ~first.ok THEN first
            ELSE LET rest == DictEntries(Tail(field))
                 IN IF rest.ok THEN Ok(first.val \o rest.val) ELSE rest

RECURSIVE CleanEntries(_)
\* line 583: for field in item['clean']
CleanEntries(clean) ==
    IF clean = <<>> THEN Ok(<<>>)
    ELSE LET first == DictEntries(Head(clean))
         IN IF ~first.ok THEN first
            ELSE LET rest == CleanEntries(Tail(clean))
                 IN IF rest.ok THEN Ok(first.val \o rest.val) ELSE rest

RECURSIVE JoinEntries(_)
\* line 582: for item in join_list
JoinEntries(join_list) ==
    IF join_list = <<>> THEN Ok(<<>>)
    ELSE LET first == CleanEntries(Head(join_list).clean)
         IN IF ~first.ok THEN first
            ELSE LET rest == JoinEntries(Tail(join_list))
                 IN IF rest.ok THEN Ok(first.val \o rest.val) ELSE rest

\* lines 568-614
build_clean_list(join_list) ==
    IF ~join_list.none THEN JoinEntries(join_list.v) ELSE Ok(<<>>)

-----------------------------------------------------------------------------
(* DataFrames *)

(* A DataFrame is [obj, columns, rows]: `columns` the column labels in     *)
(* order, `rows` the rows in order, each [idx, vals] with idx its index    *)
(* label and vals its cells in column order.  `obj` names the Python       *)
(* object within one query_to_df call: two references with the same obj    *)
(* are the same DataFrame, so an in-place assignment made through one is   *)
(* seen through the other.                                                 *)
(* Cells are text tokens: NoneCell is Python's None, "" the empty string,  *)
(* NaN and NaT the null markers of pandas, "#n" the number n and "@d" the  *)
(* timestamp d.                                                            *)

NoneCell == "None"
NaN == "NaN"
NaT == "NaT"

\* pd.DataFrame()
EmptyFrame(o) == [obj |-> o, columns |-> <<>>, rows |-> <<>>]

\* df.empty: some axis has length 0
IsEmptyMut(frame) == frame.columns = <<>>
IsEmpty(frame) == frame.columns = <<>> \/ frame.rows = <<>>

\* the position of a column label
ColumnOf(frame, field) ==
    CHOOSE k \in 1..Len(frame.columns) : frame.columns[k] = field

\* row[field]
Cell(frame, row, field) == row.vals[ColumnOf(frame, field)]

\* lines 441-451: the DataFrame of the fetched rows, under a RangeIndex
rds_sql_pull(result) ==
    IF ~result.ok
    THEN Err("Failed to Pull Rows from Cursor Query Execute")
    ELSE Ok([obj |-> 0, columns |-> result.columns,
             rows |-> [k \in 1..Len(result.rows) |->
                          [idx |-> k - 1, vals |-> result.rows[k]]]])

\* line 381, data.drop_duplicates(): a new DataFrame that keeps the first of
\* every group of rows with equal cells, index labels kept
DropDuplicatesMut(frame, o) == [frame EXCEPT !.obj = o]
DropDuplicates(frame, o) ==
    LET first(k) == \A j \in 1..(k - 1) : frame.rows[j].vals # frame.rows[k].vals
        keep == SelectSeq([k \in 1..Len(frame.rows) |-> k], first)
    IN [obj |-> o, columns |-> frame.columns,
        rows |-> [k \in 1..Len(keep) |-> frame.rows[keep[k]]]]

-----------------------------------------------------------------------------
(* Cleaning functions *)

\* line 898: row[field] == None or row[field] == ''
IsNoneOrEmptyMut(v) == v = NoneCell
IsNoneOrEmpty(v) == v = NoneCell \/ v = ""

\* pd.concat([frame, pd.DataFrame(row).T]): the row appended under its own
\* index label; an empty frame takes the row's columns
ConcatRowMut(frame, columns, row) ==
    [frame EXCEPT !.columns = IF frame.columns = <<>> THEN columns ELSE @,
                  !.rows = <<row>>]
ConcatRow(frame, columns, row) ==
    [frame EXCEPT !.columns = IF frame.columns = <<>> THEN columns ELSE @,
                  !.rows = Append(@, row)]

RECURSIVE PartitionRows(_, _, _, _, _)
\* lines 892-910: the loop over df.iterrows(), from row k on
PartitionRows(field, frame, k, cleaned_df, removed_df) ==
    IF k > Len(frame.rows) THEN [cleaned |-> cleaned_df, removed |-> removed_df]
    ELSE IF IsNoneOrEmpty(Cell(frame, frame.rows[k], field))
    THEN PartitionRows(field, frame, k + 1, cleaned_df,
                       ConcatRow(removed_df, frame.columns, frame.rows[k]))
    ELSE PartitionRows(field, frame, k + 1,
                       ConcatRow(cleaned_df, frame.columns, frame.rows[k]),
                       removed_df)

\* lines 883-913; o names the DataFrame the function creates (cleaned_df)
clean_empty_none(field, frame, removed_df, o) ==
    IF field \notin Range(frame.columns)
    THEN ErrNamed("Error: Not In DataFrame", field)
    ELSE Ok(PartitionRows(field, frame, 1, EmptyFrame(o), removed_df))

\* pd.to_numeric(value, errors='coerce')
ToNumericMut(v) ==
    CASE v = "12" -> "#12"
      [] OTHER -> v
ToNumeric(v) ==
    CASE v = "12" -> "#12"
      [] v = "#12" -> "#12"
      [] OTHER -> NaN

\* lines 1011-1020: the column is assigned in place, the object is the same
convert_integerMut(field, frame) ==
    IF field \notin Range(frame.columns)
    THEN ErrNamed("Error: Not In DataFrame", field)
    ELSE LET c == ColumnOf(frame, field)
         IN Ok([frame EXCEPT !.rows =
                  SelectSeq([k \in 1..Len(frame.rows) |->
                               [frame.rows[k] EXCEPT !.vals[c] = ToNumeric(@)]],
                            LAMBDA row : row.vals[c] # NaN)])
convert_integer(field, frame) ==
    IF field \notin Range(frame.columns)
    THEN ErrNamed("Error: Not In DataFrame", field)
    ELSE LET c == ColumnOf(frame, field)
         IN Ok([frame EXCEPT !.rows =
                  [k \in 1..Len(frame.rows) |->
                     [frame.rows[k] EXCEPT !.vals[c] = ToNumeric(@)]]])

\* pd.to_datetime(value): what one value parses to; None when it does not
ToDatetimeMut(v) ==
    CASE v = "2024-01-05" -> Some("@2024-01-05")
      [] v = "@2024-01-05" -> Some("@2024-01-05")
      [] OTHER -> Some(NaT)
ToDatetime(v) ==
    CASE v = NoneCell -> Some(NaT)
      [] v = "" -> Some(NaT)
      [] v = NaT -> Some(NaT)
      [] v = NaN -> Some(NaT)
      [] v = "2024-01-05" -> Some("@2024-01-05")
      [] v = "@2024-01-05" -> Some("@2024-01-05")
      [] OTHER -> None

\* lines 956-971: pd.to_datetime raises (errors='raise' is its default) when
\* a value does not parse; output_format is never passed by clean_table
convert_datesMut(field, frame) ==
    IF field \notin Range(frame.columns)
    THEN ErrNamed("Error: Could not convert to datetime", field)
    ELSE LET c == ColumnOf(frame, field)
         IN IF \E k \in 1..Len(frame.rows) : ToDatetime(frame.rows[k].vals[c]).none
            THEN ErrNamed("Error: Could not convert to datetime", field)
            ELSE Ok([frame EXCEPT !.rows =
                       [k \in 1..Len(frame.rows) |->
                          [frame.rows[k] EXCEPT !.vals[c] = ToDatetime(@).v]]])
convert_dates(field, frame) ==
    IF field \notin Range(frame.columns)
    THEN ErrNamed("Error: Not In DataFrame", field)
    ELSE LET c == ColumnOf(frame, field)
         IN IF \E k \in 1..Len(frame.rows) : ToDatetime(frame.rows[k].vals[c]).none
            THEN ErrNamed("Error: Could not convert to datetime", field)
            ELSE Ok([frame EXCEPT !.rows =
                       [k \in 1..Len(frame.rows) |->
                          [frame.rows[k] EXCEPT !.vals[c] = ToDatetime(@).v]]])

-----------------------------------------------------------------------------
(* The RDS session: `self` is the record of the session's attributes *)

RECURSIVE MissingFrom(_, _)
\* lines 239-244: the schema fields that are no column of the frame, in
\* schema order, one entry per schema entry
MissingFrom(sch, frame) ==
    IF sch = <<>> THEN <<>>
    ELSE (IF Head(sch) \notin Range(frame.columns) THEN <<Head(sch)>> ELSE <<>>)
         \o MissingFrom(Tail(sch), frame)

\* lines 232-249: [check, self]; the caller has tested df.empty already, the
\* raise of line 247 is modelled by `raised`
check_schema(self, frame) ==
    IF ~IsEmpty(frame)
    THEN LET missing == MissingFrom(self.schema.v, frame)
         IN [raised |-> FALSE,
             check |-> missing = <<>>,
             self |-> [self EXCEPT !.fields_missing = @ \o missing]]
    ELSE [raised |-> TRUE, check |-> FALSE, self |-> self]

Snapshot(step, field, frame) == [Step |-> step, Field |-> field, Result |-> frame]

\* df[field] = ... on the object `frame` names: every reference the session
\* holds to that object shows the assigned column
AssignInPlace(self, frame) ==
    [self EXCEPT
        !.df = IF @.obj = frame.obj THEN frame ELSE @,
        !.cleaning_versions =
            [k \in 1..Len(@) |->
                IF @[k].Result.obj = frame.obj
                THEN [@[k] EXCEPT !.Result = frame] ELSE @[k]]]

\* lines 282-288: the two resets at the head of clean_table
ResetCleaningMut(self) == self
ResetCleaningPlanMut(self) ==
    [self EXCEPT
        !.cleaning_versions = IF Len(@) # 0 THEN <<>> ELSE @,
        !.removed = IF ~IsEmpty(@) THEN EmptyFrame(0) ELSE @,
        !.clean_list = <<>>]
ResetCleaning(self) ==
    [self EXCEPT
        !.cleaning_versions = IF Len(@) # 0 THEN <<>> ELSE @,
        !.removed = IF ~IsEmpty(@) THEN EmptyFrame(0) ELSE @]

RECURSIVE CleanSteps(_, _, _, _)
\* lines 293-323: the loop over self.clean_list from step k on; o is the next
\* unused object name.  [self, data, raised, steps]: steps counts the
\* cleaning functions that returned.
CleanSteps(self, data, k, o) ==
    IF k > Len(self.clean_list)
    THEN [self |-> self, data |-> data, raised |-> None, steps |-> k - 1]
    ELSE LET field == self.clean_list[k].field
             clean_function == self.clean_list[k].function
         IN IF clean_function = "clean_empty_none"
            THEN LET r == clean_empty_none(field, data, self.removed, o)
                 IN IF ~r.ok
                    THEN [self |-> self, data |-> data, raised |-> Some(r),
                          steps |-> k - 1]
                    ELSE CleanSteps(
                           [self EXCEPT
                              !.removed = r.val.removed,
                              !.cleaning_versions =
                                  Append(@, Snapshot("Clean Nulls and Empty Fields",
                                                     Some(field), r.val.cleaned))],
                           r.val.cleaned, k + 1, o + 1)
            ELSE LET r == IF clean_function = "convert_dates"
                          THEN convert_dates(field, data)
                          ELSE convert_integer(field, data)
                     version == IF clean_function = "convert_dates"
                                THEN "Convert String Dates to DateTimes"
                                ELSE "Convert String Numbers to Integers"
                 IN IF ~r.ok
                    THEN [self |-> self, data |-> data, raised |-> Some(r),
                          steps |-> k - 1]
                    ELSE CleanSteps(
                           [AssignInPlace(self, r.val) EXCEPT
                              !.cleaning_versions =
                                  Append(@, Snapshot(version, Some(field), r.val))],
                           r.val, k + 1, o)

\* lines 282-330
clean_table(self, data) ==
    LET start == [ResetCleaning(self) EXCEPT
                    !.cleaning_versions =
                        Append(@, Snapshot("Original DataFrame", None, data))]
        done == CleanSteps(start, data, 1, data.obj + 1)
    IN IF ~done.raised.none THEN done
       ELSE [done EXCEPT
               !.self.cleaning_versions =
                   Append(@, Snapshot("Final DataFrame", None, done.data))]

\* what a query_to_df call did: the session after it, the exception raised
\* (None: it returned self.df), the number of cursor.execute calls, whether
\* check_schema and drop_duplicates ran, the cleaning functions that returned
Outcome(self, raised, executed, checked, deduped, steps) ==
    [self |-> self, raised |-> raised, handle_calls |-> executed,
     checked |-> checked, deduped |-> deduped, steps |-> steps]

EmptyError == Some(Err("Error: DataFrame Emtpy from SQL Query"))
SchemaError ==
    Some(Err("Error: DataFrame Schema Did Not Match, Check fields_missing()"))

\* line 370: the guard of query_to_df
QueryAndSchemaSetMut(self) == ~self.schema.none
QueryAndSchemaSet(self) == ~self.query.none /\ ~self.schema.none

\* lines 370-402; `result` is what the cursor gives for self.query
query_to_df(self, clean, result) ==
    IF QueryAndSchemaSet(self)
    THEN LET pull == rds_sql_pull(result)
         IN IF ~pull.ok
            THEN Outcome(self, Some(pull), 1, FALSE, FALSE, 0)
            ELSE IF ~IsEmpty(pull.val)
            THEN LET cs == check_schema(self, pull.val)
                 IN IF cs.check
                    THEN LET data == DropDuplicates(pull.val, 1)
                             kept == [cs.self EXCEPT !.df = data]
                         IN IF clean
                            THEN LET ct == clean_table(kept, data)
                                 IN IF ~ct.raised.none
                                    THEN Outcome(ct.self, ct.raised, 1, TRUE, TRUE,
                                                 ct.steps)
                                    ELSE Outcome([ct.self EXCEPT !.df = ct.data],
                                                 None, 1, TRUE, TRUE, ct.steps)
                            ELSE Outcome(kept, None, 1, TRUE, TRUE, 0)
                    ELSE Outcome(cs.self, SchemaError, 1, TRUE, FALSE, 0)
            ELSE Outcome(self, EmptyError, 1, FALSE, FALSE, 0)
    ELSE Outcome(self, EmptyError, 0, FALSE, FALSE, 0)

\* lines 169-195 with auto = False: the session, or the builder's error
NewSession(query_package, sch, exclude, q) ==
    LET unpacked == unpack_query(query_package)
    IN IF ~unpacked.ok THEN unpacked
       ELSE LET s == build_schema(unpacked.val.source, unpacked.val.join_list,
                                  sch, exclude)
                b == build_query(unpacked.val.source, unpacked.val.join_list, q)
                c == build_clean_list(unpacked.val.join_list)
            IN IF ~s.ok THEN s
               ELSE IF ~b.ok THEN b
               ELSE IF ~c.ok THEN c
               ELSE Ok([schema |-> Some(s.val),
                        query |-> b.val,
                        clean_list |-> c.val,
                        removed |-> EmptyFrame(0),
                        cleaning_versions |-> <<>>,
                        fields_missing |-> <<>>,
                        df |-> EmptyFrame(0)])

-----------------------------------------------------------------------------
(* The builder harness: arguments drawn from bounded sets, one action per   *)
(* builder function.                                                        *)

\* source descriptions, after query_package.py lines 3-10
SourceA ==
    [table |-> "applications_application", name |-> "app",
     fields |-> << << <<"application_number", "x">> >> >>,
     project |-> "34", order |-> "id"]
SourceB ==
    [table |-> "applications_application", name |-> "app",
     fields |-> << << <<"application_number", "x">>, <<"created_at", "c">> >> >>,
     project |-> "34", order |-> "i\\x64"]

\* a source description that lacks one key
SourceKeys == {"table", "name", "fields", "project", "order"}
SourceLacking(key) == [k \in SourceKeys \ {key} |-> SourceA[k]]

JoinSpec(nm, tag, sid, jid, ds, qid, flds, cln) ==
    [name |-> nm, question_source |-> tag, source_id |-> sid, join_id |-> jid,
     data_source |-> ds, question_id |-> qid, fields |-> flds, clean |-> cln]

\* join specs, after query_package.py lines 14-82
JoinHotelName ==      \* one 'fields' entry with one mapping
    JoinSpec("hotel_name", "JOIN_SOURCE", "id", "application_id",
             "application_data_textboxanswer", "1015",
             << << <<"value", "y">> >> >>,
             << << <<"y", <<"NULL">> >> >> >>)
JoinHotelAddress ==   \* one 'fields' entry that maps two columns
    JoinSpec("hotel_address", "DATA_SOURCE", "repeating_answer_section_id",
             "repeating_answer_section_id", "application_data_addressanswer", "1016",
             << << <<"line1", "z">>, <<"city", "w">> >> >>,
             << << <<"z", <<"NULL">> >> >>, << <<"w", <<"NULL">> >> >> >>)
JoinLicense ==        \* two equal 'fields' entries
    JoinSpec("license_in", "DATA_SOURCE", "repeating_answer_section_id",
             "repeating_answer_section_id", "application_data_dateanswer", "1021",
             << << <<"value", "v">> >>, << <<"value", "v">> >> >>,
             << << <<"v", <<"DATE_CONVERT", "INT_CONVERT">> >> >> >>)
JoinHousehold ==      \* two different 'fields' entries
    JoinSpec("total_in_household", "JOIN_SOURCE", "id", "application_id",
             "application_data_numberanswer", "596",
             << << <<"value", "p">> >>, << <<"unit", "q">> >> >>,
             << << <<"p", <<"INT_CONVERT">> >> >> >>)
JoinStatus ==         \* a source tag that is neither JOIN_SOURCE nor DATA_SOURCE,
                      \* and a directive that is not in the registry
    JoinSpec("hotel_status", "ANSWER_SOURCE", "repeating_answer_section_id",
             "repeating_answer_section_id", "application_data_singleselectanswer",
             "1013", << << <<"value", "u">> >> >>,
             << << <<"u", <<"NULL", "UPPER">> >> >> >>)
JoinBare ==           \* no 'fields' entry at all
    JoinSpec("bare", "DATA_SOURCE", "repeating_answer_section_id",
             "repeating_answer_section_id", "application_data_textboxanswer",
             "1014", <<>>, <<>>)

JoinSpecs == {JoinHotelName, JoinHotelAddress, JoinLicense, JoinHousehold,
              JoinStatus, JoinBare}

RECURSIVE SeqsUpTo(_, _)
\* the sequences over S of length at most n
SeqsUpTo(S, n) ==
    IF n = 0 THEN {<<>>}
    ELSE LET shorter == SeqsUpTo(S, n - 1)
         IN shorter \cup {Append(l, x) : l \in shorter, x \in S}

RawQuery == << <<"SELECT * FROM applications_application;">> >>

BuildArgs ==
    [source : {None} \cup {Some(s) : s \in {SourceA, SourceB}}
                     \cup {Some(SourceLacking(key)) : key \in SourceKeys},
     join_list : {None} \cup {Some(l) : l \in SeqsUpTo(JoinSpecs, MaxJoins)},
     query : {None, Some(RawQuery)},
     schema : {None, Some(<<"x", "z">>)},
     exclude : {None, Some(<<"z">>)}]

\* what the session variables hold while the builders are exercised alone
NoCall ==
    [called |-> FALSE, clean |-> FALSE, pulled |-> None, empty |-> FALSE,
     repeated |-> FALSE, raised |-> None, handle_calls |-> 0, checked |-> FALSE, deduped |-> FALSE,
     steps |-> 0]
NoArgs == [query_package |-> None, schema |-> None, exclude |-> None, query |-> None]
SessionIdle ==
    /\ schema = Some(<<>>)
    /\ query = None
    /\ clean_list = <<>>
    /\ df = EmptyFrame(0)
    /\ removed = EmptyFrame(0)
    /\ cleaning_versions = <<>>
    /\ fields_missing = <<>>
    /\ ctor = NoArgs
    /\ calls = 0
    /\ last = NoCall

InitBuild ==
    /\ args \in BuildArgs
    /\ bpc = "args"
    /\ ret = None
    /\ SessionIdle

CallBuildQuery ==
    /\ bpc = "args"
    /\ bpc' = "build_query"
    /\ ret' = build_query(args.source, args.join_list, args.query)
    /\ UNCHANGED <<args, svars>>

CallBuildSchema ==
    /\ bpc = "args"
    /\ bpc' = "build_schema"
    /\ ret' = build_schema(args.source, args.join_list, args.schema, args.exclude)
    /\ UNCHANGED <<args, svars>>

CallBuildCleanList ==
    /\ bpc = "args"
    /\ bpc' = "build_clean_list"
    /\ ret' = build_clean_list(args.join_list)
    /\ UNCHANGED <<args, svars>>

NextBuild == CallBuildQuery \/ CallBuildSchema \/ CallBuildCleanList

SpecBuild == InitBuild /\ [][NextBuild]_vars

-----------------------------------------------------------------------------
(* The session harness: a session constructed with auto = False, then any   *)
(* number of query_to_df calls, each with a clean flag and a cursor result  *)
(* drawn from bounded sets.                                                 *)

JoinAnswer ==         \* drop-if-null, then to-integer, on the joined column
    JoinSpec("answer", "JOIN_SOURCE", "id", "application_id",
             "application_data_textboxanswer", "1015",
             << << <<"value", "z">> >> >>,
             << << <<"z", <<"NULL", "INT_CONVERT">> >> >> >>)
JoinBoth ==           \* drop-if-null on two columns
    JoinSpec("answer", "JOIN_SOURCE", "id", "application_id",
             "application_data_textboxanswer", "1015",
             << << <<"value", "z">> >> >>,
             << << <<"x", <<"NULL">> >> >>, << <<"z", <<"NULL">> >> >> >>)

JoinConvert ==        \* to-integer on the joined column, then to-date
    JoinSpec("answer", "JOIN_SOURCE", "id", "application_id",
             "application_data_textboxanswer", "1015",
             << << <<"value", "z">> >> >>,
             << << <<"z", <<"INT_CONVERT">> >> >>,
                << <<"x", <<"DATE_CONVERT">> >> >> >>)

PackageAnswer == [source |-> SourceA, join_list |-> <<JoinAnswer>>]
PackageBoth == [source |-> SourceA, join_list |-> <<JoinBoth>>]
PackageConvert == [source |-> SourceA, join_list |-> <<JoinConvert>>]

CtorArgs(p, sch, ex, q) ==
    [query_package |-> p, schema |-> sch, exclude |-> ex, query |-> q]

SessionArgs ==
    {CtorArgs(None, Some(<<"x", "z">>), None, Some(RawQuery)),
     CtorArgs(None, None, None, Some(RawQuery)),
     CtorArgs(None, Some(<<"x", "z">>), None, None),
     CtorArgs(Some(PackageAnswer), None, None, None),
     CtorArgs(Some(PackageBoth), None, Some(<<"z">>), None),
     CtorArgs(Some(PackageConvert), None, None, None)}

\* what cursor.execute / description / fetchall give
ResultColumns == {<<"x", "z">>, <<"x">>}
RowsOf(columns) ==
    IF columns = <<"x", "z">>
    THEN {<<"a", "12">>, <<"2024-01-05", "">>, <<NoneCell, "abc">>}
    ELSE {<<"a">>, <<NoneCell>>}
HandleFails == [ok |-> FALSE, columns |-> <<>>, rows |-> <<>>]
HandleResults ==
    {HandleFails} \cup
    UNION {{[ok |-> TRUE, columns |-> c, rows |-> r] :
                r \in SeqsUpTo(RowsOf(c), MaxRows)} : c \in ResultColumns}

Self ==
    [schema |-> schema, query |-> query, clean_list |-> clean_list, df |-> df,
     removed |-> removed, cleaning_versions |-> cleaning_versions,
     fields_missing |-> fields_missing]

SetSelf(self) ==
    /\ schema' = self.schema
    /\ query' = self.query
    /\ clean_list' = self.clean_list
    /\ df' = self.df
    /\ removed' = self.removed
    /\ cleaning_versions' = self.cleaning_versions
    /\ fields_missing' = self.fields_missing

Init ==
    /\ \E a \in SessionArgs :
         LET made == NewSession(a.query_package, a.schema, a.exclude, a.query)
         IN /\ made.ok
            /\ ctor = a
            /\ schema = made.val.schema
            /\ query = made.val.query
            /\ clean_list = made.val.clean_list
            /\ df = made.val.df
            /\ removed = made.val.removed
            /\ cleaning_versions = made.val.cleaning_versions
            /\ fields_missing = made.val.fields_missing
    /\ calls = 0
    /\ last = NoCall
    /\ args = [source |-> None, join_list |-> None, query |-> None,
               schema |-> None, exclude |-> None]
    /\ bpc = "session"
    /\ ret = None

\* one call of query_to_df(clean) whose cursor gives `result`
QueryToDf ==
    \E clean \in BOOLEAN, result \in HandleResults :
        \E out \in {query_to_df(Self, clean, result)} :
           /\ calls < MaxCalls
           /\ calls' = calls + 1
           /\ SetSelf(out.self)
           /\ last' = [called |-> TRUE, clean |-> clean,
                       pulled |-> IF result.ok THEN Some(result.columns) ELSE None,
                       empty |-> result.ok /\ result.rows = <<>>,
                       repeated |-> \E i, j \in 1..Len(result.rows) :
                                       i < j /\ result.rows[i] = result.rows[j],
                       raised |-> out.raised,
                       handle_calls |-> out.handle_calls,
                       checked |-> out.checked, deduped |-> out.deduped,
                       steps |-> out.steps]
           /\ UNCHANGED <<ctor, bvars>>

Next == QueryToDf

Spec == Init /\ [][Next]_vars

-----------------------------------------------------------------------------
(* The cleaning harness: each cleaning function applied once to a field, a  *)
(* table and a removed sink drawn from bounded sets.  `df` and `removed`    *)
(* are the caller's two DataFrame objects, as they are after the call.      *)

\* the values of the column the functions are applied to
CleanCells == {"12", "abc", "", NoneCell, NaN, "2024-01-05"}

\* a table as clean_table hands it on: no rows and no columns (every row
\* was dropped before), or up to MaxRows rows under the index labels that
\* earlier drops left
CleanTables ==
    {EmptyFrame(1)} \cup
    {[obj |-> 1, columns |-> <<"x", "z">>,
      rows |-> [k \in 1..Len(r) |-> [idx |-> 2 * k - 1, vals |-> <<"a", r[k]>>]]] :
        r \in SeqsUpTo(CleanCells, MaxRows) \ {<<>>}}

\* self.removed: empty, or holding a row an earlier step removed
CleanSinks ==
    {EmptyFrame(0),
     [obj |-> 0, columns |-> <<"x", "z">>,
      rows |-> <<[idx |-> 0, vals |-> <<"a", "">>]>>]}

CleanArgs == [field : {"z", "w"}, df : CleanTables, removed : CleanSinks]

InitClean ==
    /\ args \in CleanArgs
    /\ bpc = "args"
    /\ ret = None
    /\ df = args.df
    /\ removed = args.removed
    /\ schema = Some(<<>>)
    /\ query = None
    /\ clean_list = <<>>
    /\ cleaning_versions = <<>>
    /\ fields_missing = <<>>
    /\ ctor = NoArgs
    /\ calls = 0
    /\ last = NoCall

\* cleaned_df and the concatenated sink are new objects: the caller's two
\* objects are as before
CallCleanEmptyNone ==
    /\ bpc = "args"
    /\ bpc' = "clean_empty_none"
    /\ ret' = clean_empty_none(args.field, df, removed, 2)
    /\ UNCHANGED <<args, schema, query, clean_list, df, removed,
                   cleaning_versions, fields_missing, ctor, calls, last>>

\* df[field] = ... assigns the column of the caller's object
CallConvertDates ==
    /\ bpc = "args"
    /\ bpc' = "convert_dates"
    /\ \E r \in {convert_dates(args.field, df)} :
          /\ ret' = r
          /\ df' = IF r.ok THEN r.val ELSE df
    /\ UNCHANGED <<args, schema, query, clean_list, removed,
                   cleaning_versions, fields_missing, ctor, calls, last>>

CallConvertInteger ==
    /\ bpc = "args"
    /\ bpc' = "convert_integer"
    /\ \E r \in {convert_integer(args.field, df)} :
          /\ ret' = r
          /\ df' = IF r.ok THEN r.val ELSE df
    /\ UNCHANGED <<args, schema, query, clean_list, removed,
                   cleaning_versions, fields_missing, ctor, calls, last>>

NextClean == CallCleanEmptyNone \/ CallConvertDates \/ CallConvertInteger

SpecClean == InitClean /\ [][NextClean]_vars

-----------------------------------------------------------------------------
(* Properties of the session (checked under Spec) *)

\* the last call returned self.df, after cleaning
CleanedOk == last.called /\ last.clean /\ last.raised.none

\* the audit step name of each cleaning operation
StepName(function) ==
    CASE function = "clean_empty_none" -> "Clean Nulls and Empty Fields"
      [] function = "convert_dates" -> "Convert String Dates to DateTimes"
      [] function = "convert_integer" -> "Convert String Numbers to Integers"

\* C1: after every successful query_to_df call with cleaning enabled, first
\* or later on the session, cleaning_versions is exactly Original, one entry
\* per clean-plan step in plan order, Final: K + 2 entries for a plan of K
\* steps, none left from an earlier call.
C1_AuditLogPerCall ==
    CleanedOk =>
        LET K == Len(clean_list)
        IN /\ Len(cleaning_versions) = K + 2
           /\ cleaning_versions[1].Step = "Original DataFrame"
           /\ cleaning_versions[1].Field = None
           /\ cleaning_versions[K + 2].Step = "Final DataFrame"
           /\ cleaning_versions[K + 2].Field = None
           /\ \A k \in 1..K :
                /\ cleaning_versions[k + 1].Step = StepName(clean_list[k].function)
                /\ cleaning_versions[k + 1].Field = Some(clean_list[k].field)

C1_Witness ==
    /\ CleanedOk
    /\ calls = 2
    /\ Len(clean_list) = 2
    /\ ~IsEmpty(removed)

\* the schema columns that are no column of the result, in schema order
AbsentColumns(sch, columns) ==
    SelectSeq(sch, LAMBDA field : field \notin Range(columns))

\* C2: when query_to_df fails with the schema-mismatch error, fields_missing
\* is exactly the schema columns absent from that call's result, each once
\* and in schema order, also when earlier calls were made on the session.
C2_MissingFieldsOfThisCall ==
    (last.called /\ last.raised = SchemaError) =>
        fields_missing = AbsentColumns(schema.v, last.pulled.v)

\* C3: after a query_to_df call with cleaning disabled, the removed-rows
\* table and the audit log hold nothing from an earlier call (the call puts
\* nothing in them itself, so both are empty).
C3_NoCleanCallClears ==
    (last.called /\ ~last.clean /\ last.raised.none) =>
        /\ cleaning_versions = <<>>
        /\ IsEmpty(removed)

\* C4: when the session's query is missing or its resolved schema is the
\* empty list, query_to_df fails and the execution handle is not invoked.
C4_QueryAndSchemaRequired ==
    (last.called /\ (query.none \/ schema.v = <<>>)) =>
        /\ ~last.raised.none
        /\ last.handle_calls = 0

\* C5: a query_to_df call whose execution handle returns zero rows fails with
\* the empty-result error and runs no schema validation, no deduplication and
\* no cleaning step: fields_missing, self.df, the removed-rows table and the
\* audit log are as before the call.
C5_EmptyResultIsFatal ==
    [][(calls' = calls + 1 /\ last'.handle_calls = 1 /\ last'.empty) =>
          /\ last'.raised = EmptyError
          /\ ~last'.checked /\ ~last'.deduped /\ last'.steps = 0
          /\ UNCHANGED <<fields_missing, df, removed, cleaning_versions>>]_vars

C5_Witness ==
    /\ last.called /\ last.handle_calls = 1 /\ last.empty
    /\ last.pulled = Some(<<"x", "z">>)
    /\ last.raised = EmptyError
    /\ calls = 2
    /\ cleaning_versions # <<>>

\* the session was built from a raw query and an explicit schema alone
RawSession ==
    /\ bpc = "session"
    /\ ctor.query_package.none /\ ctor.exclude.none
    /\ ~ctor.query.none /\ ~ctor.schema.none

\* C7: a session built from a raw query and an explicit schema, with no
\* QueryPackage and no exclusion, holds the raw query unchanged as its query,
\* the explicit schema unchanged (same names, same order) as its schema, and
\* an empty clean plan.
C7_RawSessionPassThrough ==
    RawSession =>
        /\ query = ctor.query
        /\ schema = ctor.schema
        /\ clean_list = <<>>

C7_Witness ==
    /\ RawSession
    /\ query = Some(RawQuery)
    /\ schema = Some(<<"x", "z">>)
    /\ calls = 0

-----------------------------------------------------------------------------
(* Properties of build_query (checked under SpecBuild) *)

\* the call was made in the rendering mode and returned a query
Rendered ==
    /\ bpc = "build_query"
    /\ args.query.none /\ ~args.source.none /\ ~args.join_list.none
    /\ ret.ok

\* the two entry modes the specification names
SpecMode ==
    \/ args.query.none /\ ~args.source.none /\ ~args.join_list.none
       /\ args.join_list.v # <<>>
    \/ ~args.query.none /\ args.source.none /\ args.join_list.none

\* C6: build_query called with any combination of arguments other than
\* (source + non-empty join list, no raw query) or (raw query only) fails
\* with a configuration error instead of returning a value.
C6_OtherModesFail ==
    (bpc = "build_query" /\ ~SpecMode) => ~ret.ok

LeftJoins(text) == SelectSeq(text, LAMBDA line : line[1] = "LEFT JOIN")

\* the linking-table alias the specification gives the k-th join spec
LinkAlias(k) ==
    IF k = 1 THEN "initial_join_answers"
    ELSE "join_answers_" \o ToString(k - 1)

\* C8: the rendered query of N >= 1 join specs holds exactly 2N LEFT JOIN
\* clauses, one pair per join spec in the given order: first the join against
\* application_data_answer under the alias initial_join_answers (first join
\* spec) or join_answers_k (the (k+1)-th), then the join against the join
\* spec's own table.
C8_JoinPairs ==
    (Rendered /\ args.join_list.v # <<>>) =>
        LET jl == args.join_list.v
            lj == LeftJoins(ret.val.v)
        IN /\ Len(lj) = 2 * Len(jl)
           /\ \A k \in 1..Len(jl) :
                /\ lj[2 * k - 1][2] = "application_data_answer"
                /\ lj[2 * k - 1][3] = LinkAlias(k)
                /\ lj[2 * k][2] = jl[k].data_source
                /\ lj[2 * k][3] = jl[k].name

C8_Witness ==
    /\ Rendered
    /\ Len(args.join_list.v) = 3
    /\ LeftJoins(ret.val.v)[5][3] = "join_answers_2"

\* the lines of the SELECT clause: "alias . column AS name [,]"
ColumnLines(text) ==
    SelectSeq(text, LAMBDA line : Len(line) >= 5 /\ line[4] = "AS")
HasComma(line) == line[Len(line)] = ","

\* C9: in the SELECT clause every column line ends with a comma except the
\* very last one, for every join list whose last join spec maps a column
\* (also when its last 'fields' entry maps several columns or is repeated).
C9_OnlyLastColumnBare ==
    (/\ Rendered
     /\ args.join_list.v # <<>>
     /\ args.join_list.v[Len(args.join_list.v)].fields # <<>>) =>
        LET cl == ColumnLines(ret.val.v)
        IN \A k \in 1..Len(cl) : HasComma(cl[k]) <=> k < Len(cl)

\* the table named on the left of the first ON clause of the k-th pair
OnLeft(text, k) == LeftJoins(text)[2 * k - 1][5]

\* C10 (as stated): the left side of the first ON clause is the source alias
\* for a JOIN_SOURCE join spec and otherwise the linking-table alias of the
\* preceding join spec.
C10_PrecedingAlias ==
    Rendered =>
        \A k \in 1..Len(args.join_list.v) :
            LET item == args.join_list.v[k]
            IN /\ item.question_source = "JOIN_SOURCE" =>
                    OnLeft(ret.val.v, k) = args.source.v.name
               /\ (item.question_source = "DATA_SOURCE" /\ k > 1) =>
                    OnLeft(ret.val.v, k) = LinkAlias(k - 1)

\* C10 (amended): the left side of the first ON clause is the source alias
\* for a JOIN_SOURCE join spec and initial_join_answers, the alias of the
\* first join spec's linking table, for every DATA_SOURCE join spec, whatever
\* its position.
C10_InitialAlias ==
    Rendered =>
        \A k \in 1..Len(args.join_list.v) :
            LET item == args.join_list.v[k]
            IN /\ item.question_source = "JOIN_SOURCE" =>
                    OnLeft(ret.val.v, k) = args.source.v.name
               /\ item.question_source = "DATA_SOURCE" =>
                    OnLeft(ret.val.v, k) = "initial_join_answers"

C10_Witness ==
    /\ Rendered
    /\ Len(args.join_list.v) = 3
    /\ args.join_list.v[1].question_source = "JOIN_SOURCE"
    /\ args.join_list.v[3].question_source = "DATA_SOURCE"
    /\ OnLeft(ret.val.v, 3) = "initial_join_answers"

-----------------------------------------------------------------------------
(* Properties of build_schema and build_clean_list (checked under SpecBuild) *)

RECURSIVE Concat(_)
\* the concatenation of a sequence of sequences
Concat(ss) == IF ss = <<>> THEN <<>> ELSE Head(ss) \o Concat(Tail(ss))

\* the output-column names a 'fields' list declares, in declaration order
OutputNames(fields) ==
    Concat([k \in 1..Len(fields) |->
               [m \in 1..Len(fields[k]) |-> fields[k][m][2]]])

\* all source output names, then all join output names
DeclaredNames(source, join_list) ==
    OutputNames(source.fields)
    \o Concat([k \in 1..Len(join_list) |-> OutputNames(join_list[k].fields)])

\* `names` with every occurrence of every excluded name taken out
Without(names, exclude) ==
    SelectSeq(names, LAMBDA n : \A j \in 1..Len(exclude) : exclude[j] # n)

HasPackage == ~args.source.none /\ ~args.join_list.none
HasSchema == ~args.schema.none

\* C11: build_schema on a source and a join list returns all source output
\* names followed by all join output names in declaration order, duplicates
\* kept; with an exclusion list it returns that sequence without any
\* occurrence of an excluded name, the rest in the same order; a
\* caller-supplied schema is filtered by the exclusion list the same way.
C11_SchemaOrderAndExclusion ==
    bpc = "build_schema" =>
        /\ (HasPackage /\ ~HasSchema /\ ~Lacks(args.source.v, "fields")) =>
              /\ ret.ok
              /\ ret.val =
                    IF args.exclude.none
                    THEN DeclaredNames(args.source.v, args.join_list.v)
                    ELSE Without(DeclaredNames(args.source.v, args.join_list.v),
                                 args.exclude.v)
        /\ (HasSchema /\ args.source.none /\ args.join_list.none) =>
              /\ ret.ok
              /\ ret.val = IF args.exclude.none THEN args.schema.v
                           ELSE Without(args.schema.v, args.exclude.v)

C11_Witness ==
    /\ bpc = "build_schema"
    /\ args.source = Some(SourceB)
    /\ args.join_list = Some(<<JoinHotelAddress, JoinLicense, JoinHotelAddress>>)
    /\ args.schema.none
    /\ args.exclude = Some(<<"z">>)
    /\ ret = Ok(<<"x", "c", "w", "v", "v", "w">>)

\* C12: build_schema fails with a configuration error when it is given both
\* a source with a join list and an explicit schema, and when it is given
\* neither.
C12_ExactlyOneMode ==
    (bpc = "build_schema" /\ (HasPackage <=> HasSchema)) => ~ret.ok

\* the <<output name, directive name>> pairs of a join list: by join spec,
\* then by 'clean' entry, then by mapping, then by directive
Directives(join_list) ==
    Concat([i \in 1..Len(join_list) |->
      Concat([k \in 1..Len(join_list[i].clean) |->
        Concat([m \in 1..Len(join_list[i].clean[k]) |->
          [c \in 1..Len(join_list[i].clean[k][m][2]) |->
             <<join_list[i].clean[k][m][1], join_list[i].clean[k][m][2][c]>>]])])])

Registered == {"NULL", "DATE_CONVERT", "INT_CONVERT"}

\* the operation each registered directive resolves to
Operation(directive) ==
    CASE directive = "NULL" -> "clean_empty_none"
      [] directive = "DATE_CONVERT" -> "convert_dates"
      [] directive = "INT_CONVERT" -> "convert_integer"

\* C13: build_clean_list on a join list whose directives are all registered
\* returns one (field, operation) entry per directive, ordered by join spec,
\* then 'clean' entry, then directive, NULL resolved to clean_empty_none,
\* DATE_CONVERT to convert_dates and INT_CONVERT to convert_integer; when a
\* directive is not registered the call raises an error that names the first
\* such directive, and no plan is returned.
C13_CleanPlanOrder ==
    (bpc = "build_clean_list" /\ ~args.join_list.none) =>
        LET ds == Directives(args.join_list.v)
            bad == SelectSeq(ds, LAMBDA d : d[2] \notin Registered)
        IN IF bad = <<>>
           THEN /\ ret.ok
                /\ ret.val = [k \in 1..Len(ds) |->
                                [field |-> ds[k][1],
                                 function |-> Operation(ds[k][2])]]
           ELSE /\ ~ret.ok
                /\ ret.err = "Error: Could not add calc entry to clean list."
                /\ ret.name = bad[1][2]

C13_Witness ==
    /\ bpc = "build_clean_list"
    /\ args.join_list = Some(<<JoinHotelAddress, JoinLicense, JoinHousehold>>)
    /\ ret = Ok(<<[field |-> "z", function |-> "clean_empty_none"],
                  [field |-> "w", function |-> "clean_empty_none"],
                  [field |-> "v", function |-> "convert_dates"],
                  [field |-> "v", function |-> "convert_integer"],
                  [field |-> "p", function |-> "convert_integer"]>>)

\* a plan that fails on its last directive, after three resolved ones
C13_FailsWhole ==
    /\ bpc = "build_clean_list"
    /\ args.join_list = Some(<<JoinHotelAddress, JoinStatus>>)
    /\ ret = ErrNamed("Error: Could not add calc entry to clean list.", "UPPER")

-----------------------------------------------------------------------------
(* Properties of the cleaning functions (checked under SpecClean) *)

\* the function was called with a field that is a column of the table
OnColumn(function) ==
    /\ bpc = function
    /\ \E c \in 1..Len(args.df.columns) : args.df.columns[c] = args.field

\* the value a row of the given table holds in the field
FieldValue(row) ==
    row.vals[CHOOSE c \in 1..Len(args.df.columns) : args.df.columns[c] = args.field]

\* Python's None or the empty string
NullOrEmpty(v) == v \in {NoneCell, ""}

\* C14: clean_empty_none on a table that has the field returns as kept table
\* exactly the rows whose value is neither None nor the empty string, in
\* their order and under their index labels, and as removed sink the given
\* sink followed by exactly the other rows in their order.
C14_DropIfNullPartition ==
    OnColumn("clean_empty_none") =>
        /\ ret.ok
        /\ ret.val.cleaned.rows =
              SelectSeq(args.df.rows, LAMBDA row : ~NullOrEmpty(FieldValue(row)))
        /\ ret.val.removed.rows =
              args.removed.rows
              \o SelectSeq(args.df.rows, LAMBDA row : NullOrEmpty(FieldValue(row)))

C14_Witness ==
    /\ OnColumn("clean_empty_none")
    /\ args.removed.rows # <<>>
    /\ args.df.rows = <<[idx |-> 1, vals |-> <<"a", "">>],
                        [idx |-> 3, vals |-> <<"a", "12">>]>>
    /\ ret.val.cleaned.rows = <<[idx |-> 3, vals |-> <<"a", "12">>]>>
    /\ ret.val.removed.rows = <<[idx |-> 0, vals |-> <<"a", "">>],
                                [idx |-> 1, vals |-> <<"a", "">>]>>

\* the column of the field, row by row, before the call and as returned
ColumnBefore == [k \in 1..Len(args.df.rows) |-> FieldValue(args.df.rows[k])]
ColumnAfter == [k \in 1..Len(ret.val.rows) |-> FieldValue(ret.val.rows[k])]

\* the returned table is the given one but for the values of the field
OnlyFieldChanged ==
    /\ ret.val.columns = args.df.columns
    /\ Len(ret.val.rows) = Len(args.df.rows)
    /\ \A k \in 1..Len(args.df.rows) :
          /\ ret.val.rows[k].idx = args.df.rows[k].idx
          /\ \A c \in 1..Len(args.df.columns) :
                args.df.columns[c] # args.field =>
                    ret.val.rows[k].vals[c] = args.df.rows[k].vals[c]

\* text that is no date, the null and empty values, text that is a date
NotADate(v) == v = "abc"
DateOrNull(v) == v \in {"2024-01-05", NoneCell, "", NaN}

\* C15 (as stated): convert_dates on a column that holds a date and a value
\* that cannot be parsed returns the table, the unparseable value replaced by
\* the null marker.
C15_UnparseableCoerced ==
    (/\ OnColumn("convert_dates")
     /\ \E k \in 1..Len(ColumnBefore) : NotADate(ColumnBefore[k])
     /\ \E k \in 1..Len(ColumnBefore) : ColumnBefore[k] = "2024-01-05") =>
        /\ ret.ok
        /\ \A k \in 1..Len(ColumnBefore) :
              NotADate(ColumnBefore[k]) => ColumnAfter[k] = NaT

\* C15 (amended): convert_dates on a column that holds a value that cannot
\* be parsed as a date raises the conversion error naming the field and
\* leaves the table as it was; on a column of dates, nulls and empty strings
\* it returns the table with every date converted and every null or empty
\* value as the null marker NaT, rows and other columns unchanged.
C15_UnparseableIsFatal ==
    OnColumn("convert_dates") =>
        /\ (\E k \in 1..Len(ColumnBefore) : NotADate(ColumnBefore[k])) =>
              /\ ret = ErrNamed("Error: Could not convert to datetime", args.field)
              /\ df = args.df
        /\ (\A k \in 1..Len(ColumnBefore) : DateOrNull(ColumnBefore[k])) =>
              /\ ret.ok
              /\ OnlyFieldChanged
              /\ \A k \in 1..Len(ColumnBefore) :
                    ColumnAfter[k] = IF ColumnBefore[k] = "2024-01-05"
                                     THEN "@2024-01-05" ELSE NaT

C15_Witness ==
    /\ OnColumn("convert_dates")
    /\ ColumnBefore = <<"2024-01-05", "abc">>
    /\ ~ret.ok
    /\ ret.name = "z"
    /\ df = args.df

\* a column of a date and an empty string converts
C15_Converted ==
    /\ OnColumn("convert_dates")
    /\ ColumnBefore = <<"2024-01-05", "">>
    /\ ret.ok
    /\ ColumnAfter = <<"@2024-01-05", NaT>>
    /\ df = ret.val

\* C16: convert_integer on a column that is in the table never raises: every
\* value that is the text of a number becomes that number, every other value
\* becomes the null marker NaN, and rows, row order, index labels and the
\* other columns are unchanged.
C16_CoercionNeverRaises ==
    OnColumn("convert_integer") =>
        /\ ret.ok
        /\ OnlyFieldChanged
        /\ \A k \in 1..Len(ColumnBefore) :
              ColumnAfter[k] = IF ColumnBefore[k] = "12" THEN "#12" ELSE NaN

C16_Witness ==
    /\ OnColumn("convert_integer")
    /\ ColumnBefore = <<"12", "abc">>
    /\ ret.ok
    /\ ColumnAfter = <<"#12", NaN>>

\* C17: clean_empty_none, convert_dates and convert_integer called with a
\* field that is no column of the table raise the error "<field> Not In
\* DataFrame", and the caller's table and removed sink are as before the
\* call.
C17_AbsentFieldIsFatal ==
    (/\ bpc \in {"clean_empty_none", "convert_dates", "convert_integer"}
     /\ \A c \in 1..Len(args.df.columns) : args.df.columns[c] # args.field) =>
        /\ ret = ErrNamed("Error: Not In DataFrame", args.field)
        /\ df = args.df
        /\ removed = args.removed

C17_Witness ==
    /\ bpc = "convert_dates"
    /\ args.field = "w"
    /\ Len(args.df.rows) = 2
    /\ args.removed.rows # <<>>
    /\ ret = ErrNamed("Error: Not In DataFrame", "w")
    /\ df = args.df

-----------------------------------------------------------------------------
(* Properties of the cleaning pipeline (checked under Spec) *)

\* the last call reached clean_table
CleaningRan == last.called /\ last.clean /\ last.deduped

\* a value only a conversion step produces: the cursor returns none of them
Converted(v) == v \in {"#12", NaN, NaT, "@2024-01-05"}

\* the values a table holds in a column (none when it lacks the column)
ValuesOf(frame, field) ==
    {frame.rows[k].vals[c] :
        k \in 1..Len(frame.rows),
        c \in {n \in 1..Len(frame.columns) : frame.columns[n] = field}}

\* step k of the plan is the first conversion of its field
FirstConversion(k) ==
    /\ clean_list[k].function # "clean_empty_none"
    /\ \A i \in 1..(k - 1) :
          clean_list[i].function # "clean_empty_none" =>
              clean_list[i].field # clean_list[k].field

\* C18: after a successful cleaning call every audit snapshot shows the
\* table of its own stage: the snapshots appended before the first
\* conversion of a field (the Original snapshot among them) hold no
\* converted value in that field.
C18_SnapshotsKeepTheirStage ==
    CleanedOk =>
        \A k \in 1..Len(clean_list) :
            FirstConversion(k) =>
                \A j \in 1..k :
                    \A v \in ValuesOf(cleaning_versions[j].Result,
                                       clean_list[k].field) : ~Converted(v)

\* the Original snapshot after a plan that starts with a conversion
C18_OriginalConverted ==
    /\ CleanedOk
    /\ clean_list[1] = [field |-> "z", function |-> "convert_integer"]
    /\ cleaning_versions[1].Step = "Original DataFrame"
    /\ cleaning_versions[1].Result.rows
         = <<[idx |-> 0, vals |-> <<"@2024-01-05", NaN>>]>>

\* the index labels of a table, in row order
Labels(frame) == [k \in 1..Len(frame.rows) |-> frame.rows[k].idx]

\* the labels of `before` that are no label of `after`, in order
Dropped(before, after) ==
    SelectSeq(Labels(before),
              LAMBDA l : \A k \in 1..Len(after.rows) : after.rows[k].idx # l)

RECURSIVE DroppedBySteps(_)
\* the labels the drop-if-null steps among the first n steps took out
DroppedBySteps(n) ==
    IF n = 0 THEN <<>>
    ELSE DroppedBySteps(n - 1)
         \o (IF clean_list[n].function = "clean_empty_none"
             THEN Dropped(cleaning_versions[n].Result,
                          cleaning_versions[n + 1].Result)
             ELSE <<>>)

\* C19: in a call that reached cleaning, every convert_dates and every
\* convert_integer step that ran left the rows of the table as they were
\* (same index labels before and after the step), and the removed-rows
\* table holds exactly the rows the clean_empty_none steps took out: no
\* conversion step, returning or raising, put a row in it.
C19_OnlyDropStepsRemove ==
    CleaningRan =>
        /\ Len(cleaning_versions) >= last.steps + 1
        /\ \A k \in 1..last.steps :
              clean_list[k].function # "clean_empty_none" =>
                  Labels(cleaning_versions[k + 1].Result)
                      = Labels(cleaning_versions[k].Result)
        /\ Labels(removed) = DroppedBySteps(last.steps)

C19_Witness ==
    /\ CleanedOk
    /\ clean_list = <<[field |-> "z", function |-> "convert_integer"],
                      [field |-> "x", function |-> "convert_dates"]>>
    /\ df.rows = <<[idx |-> 0, vals |-> <<"@2024-01-05", NaN>>],
                   [idx |-> 1, vals |-> <<NaT, NaN>>]>>
    /\ removed.rows = <<>>

\* a to-integer step after a drop-if-null step that removed a row
C19_AfterDrop ==
    /\ CleanedOk
    /\ clean_list = <<[field |-> "z", function |-> "clean_empty_none"],
                      [field |-> "z", function |-> "convert_integer"]>>
    /\ Len(df.rows) = 1
    /\ Len(removed.rows) = 1

\* a to-date step that raised, after a to-integer step that returned
C19_DateRaised ==
    /\ CleaningRan
    /\ ~last.raised.none
    /\ last.raised.v.err = "Error: Could not convert to datetime"
    /\ last.steps = 1
    /\ removed.rows = <<>>

\* no two rows of the table hold the same cells
NoDupRows(frame) ==
    \A i, j \in 1..Len(frame.rows) :
        i < j => frame.rows[i].vals # frame.rows[j].vals

\* C20: a query_to_df call runs query, empty check, schema validation,
\* duplicate removal and cleaning in that order: a call whose result is empty
\* or fails validation runs no cleaning step and leaves the audit log and
\* the removed-rows table as they were; the table a call with cleaning
\* disabled returns, and the table handed to a first drop-if-null step (or
\* to an empty plan), holds no two identical rows.
C20_StagesInOrder ==
    [][calls' = calls + 1 =>
          /\ last'.checked => (last'.handle_calls = 1 /\ ~last'.empty)
          /\ last'.deduped => (last'.checked /\ last'.raised # SchemaError)
          /\ last'.steps > 0 => (last'.deduped /\ last'.clean)
          /\ (last'.empty \/ last'.raised = SchemaError) =>
                /\ last'.steps = 0
                /\ UNCHANGED <<cleaning_versions, removed, df>>
          /\ (last'.raised.none /\ ~last'.clean) => NoDupRows(df')
          /\ (/\ last'.deduped /\ last'.clean
              /\ (clean_list = <<>> \/ clean_list[1].function = "clean_empty_none")) =>
                NoDupRows(cleaning_versions'[1].Result)]_vars

C20_Witness ==
    /\ last.called /\ last.repeated /\ last.raised.none
    /\ ~last.clean
    /\ Len(df.rows) = 1
    /\ calls = 1

\* a result with a repeated row handed to a first drop-if-null step
C20_CleanedWitness ==
    /\ CleanedOk /\ last.repeated
    /\ clean_list # <<>>
    /\ Len(cleaning_versions[1].Result.rows) = 1

-----------------------------------------------------------------------------
(* Properties of build_query on an incomplete source (checked under         *)
(* SpecBuild)                                                               *)

\* the rendering branch was taken with a source that lacks `key`, and the
\* join list is one that renders
LacksKey(key) ==
    /\ bpc = "build_query"
    /\ args.query.none /\ ~args.source.none /\ ~args.join_list.none
    /\ Lacks(args.source.v, key)
    /\ \A k \in 1..Len(args.join_list.v) :
          args.join_list.v[k].question_source \in {"JOIN_SOURCE", "DATA_SOURCE"}

\* the message of the configuration error for each key
ComponentMessage(key) ==
    CASE key = "fields" ->
           {"Error: Could not pull fields from Source, check Source data package."}
      [] key = "table" ->
           {"Error: Could not pull source table or name from Source data package."}
      [] key = "name" ->
           {"Error: Could not pull fields from Source, check Source data package.",
            "Error: Could not pull source table or name from Source data package."}
      [] key = "project" -> {"Error: Could not apply project filter to query."}
      [] key = "order" -> {"Error: Could not apply order operations to query."}

\* C23: build_query on a source that lacks fields, table, name, project or
\* order raises the configuration error whose message names the component
\* that could not be rendered, around the KeyError of the missing key; also
\* for a missing project and a missing order.
C23_MissingKeyNamed ==
    \A key \in SourceKeys :
        LacksKey(key) =>
            /\ ~ret.ok
            /\ ret.err \in ComponentMessage(key)
            /\ ret.name = key

\* the part of C23 that holds: fields, table and name
C23_FieldsTableName ==
    \A key \in {"fields", "table", "name"} :
        LacksKey(key) =>
            /\ ~ret.ok
            /\ ret.err \in ComponentMessage(key)
            /\ ret.name = key

\* a source without project: the error raised is the UnboundLocalError
C23_ProjectUnbound ==
    /\ LacksKey("project")
    /\ args.join_list.v # <<>>
    /\ ret = UnboundLocalError("e")

-----------------------------------------------------------------------------
(* Properties of the session as a whole (checked under Spec) *)

\* C21: whatever calls of query_to_df were made, returning or raising, with
\* or without cleaning, the session's query, schema and clean plan are the
\* ones the constructor resolved from its arguments.
C21_ResolvedOnce ==
    bpc = "session" =>
        LET made == NewSession(ctor.query_package, ctor.schema, ctor.exclude,
                               ctor.query)
        IN /\ made.ok
           /\ query = made.val.query
           /\ schema = made.val.schema
           /\ clean_list = made.val.clean_list

C21_Witness ==
    /\ calls = 2
    /\ CleaningRan
    /\ ~last.raised.none
    /\ cleaning_versions # <<>>
    /\ ~query.none
    /\ schema = Some(<<"x", "z">>)
    /\ clean_list = <<[field |-> "z", function |-> "convert_integer"],
                      [field |-> "x", function |-> "convert_dates"]>>

\* C22: a query_to_df call invokes the execution handle at most once, and
\* once exactly when the session has a query and a schema; when the handle
\* fails, when validation fails or when a cleaning step raises, the call
\* raises, and nothing runs after the failure: no validation after a failed
\* handle, no cleaning step after a failed validation, no further step or
\* snapshot after a failed step.
C22_NoRetries ==
    last.called =>
        /\ last.handle_calls \in {0, 1}
        /\ last.handle_calls = 1 <=> (~query.none /\ ~schema.none)
        /\ (last.handle_calls = 1 /\ last.pulled.none) =>
              /\ ~last.raised.none
              /\ ~last.checked /\ ~last.deduped /\ last.steps = 0
        /\ (last.checked /\ ~last.deduped) =>
              /\ last.raised = SchemaError
              /\ last.steps = 0
        /\ (CleaningRan /\ last.steps < Len(clean_list)) =>
              /\ ~last.raised.none
              /\ Len(cleaning_versions) = last.steps + 1
        /\ (CleaningRan /\ ~last.raised.none) => last.steps < Len(clean_list)

C22_Witness ==
    /\ last.called
    /\ last.handle_calls = 1
    /\ CleaningRan
    /\ ~last.raised.none
    /\ last.steps = 1
    /\ Len(clean_list) = 2
    /\ Len(cleaning_versions) = 2

\* the members of a sequence
Members(seq) == {seq[k] : k \in 1..Len(seq)}

\* C24: after a successful call with cleaning, the rows of the deduplicated
\* result (the Original snapshot), taken by index label, are each in exactly
\* one of self.df and self.removed, once: none lost, none in both, none
\* twice.
C24_RowConservation ==
    CleanedOk =>
        LET original == Labels(cleaning_versions[1].Result)
            kept == Labels(df)
            dropped == Labels(removed)
        IN /\ Members(kept) \cup Members(dropped) = Members(original)
           /\ Members(kept) \cap Members(dropped) = {}
           /\ Cardinality(Members(kept)) = Len(kept)
           /\ Cardinality(Members(dropped)) = Len(dropped)
           /\ Len(kept) + Len(dropped) = Len(original)

C24_Witness ==
    /\ CleanedOk
    /\ clean_list = <<[field |-> "x", function |-> "clean_empty_none"],
                      [field |-> "z", function |-> "clean_empty_none"]>>
    /\ Len(cleaning_versions[1].Result.rows) = 2
    /\ Labels(removed) = <<1, 0>>
    /\ df.rows = <<>>

\* two rows kept by a drop-if-null step
C24_BothKept ==
    /\ CleanedOk
    /\ clean_list[1].function = "clean_empty_none"
    /\ Len(df.rows) = 2
    /\ removed.rows = <<>>

\* C25: the table clean_empty_none returns as kept has the columns of the
\* table it was given, also when no row is kept.
C25_ColumnsKept ==
    OnColumn("clean_empty_none") =>
        /\ ret.ok
        /\ ret.val.cleaned.columns = args.df.columns

\* a plan whose first drop-if-null step removed every row and whose second
\* step, on a column of the result, raised the field-absent error
C25_PlanFails ==
    /\ CleaningRan
    /\ last.pulled = Some(<<"x", "z">>)
    /\ last.steps = 1
    /\ last.raised = Some(ErrNamed("Error: Not In DataFrame", "z"))

\* C26: a query_to_df call that raises leaves self.df, self.removed and
\* self.cleaning_versions as they were before the call.
C26_FailedCallChangesNothing ==
    [][(calls' = calls + 1 /\ ~last'.raised.none) =>
          UNCHANGED <<df, removed, cleaning_versions>>]_vars

\* the part of C26 that holds: the failures that come before cleaning
C26_EarlyFailures ==
    [][(calls' = calls + 1 /\ ~last'.raised.none /\ ~last'.deduped) =>
          UNCHANGED <<df, removed, cleaning_versions>>]_vars

====
